---- MODULE Spec2Model ----
(***************************************************************************)
(* A model of the command dispatcher of tauri-plugin-mcp                   *)
(* (src/tools/mod.rs), of the handlers it routes to, and of the            *)
(* emit / once / recv_timeout round trip the bridge-backed handlers make   *)
(* with a webview.                                                         *)
(*                                                                         *)
(* Strings the code builds with format! are modelled as tuples of their    *)
(* parts, so that "the message contains the label" can be read off them.   *)
(* Option<T> is modelled as a tuple: <<>> is None and <<v>> is Some(v).    *)
(***************************************************************************)
EXTENDS Integers, Sequences, FiniteSets, TLC

\* ------------------------------------------------------------------ bounds

\* Number of dispatches the model follows, concurrently or one after another.
MaxCalls == 2

Calls == 1 .. MaxCalls

\* ------------------------------------------------- Option and small helpers

None == <<>>

Some(v) == <<v>>

IsSome(o) == o # <<>>

\* Option::unwrap_or
unwrap_or(o, d) == IF o = <<>> THEN d ELSE o[1]

\* ------------------------------------------------------- error taxonomy

\* Error::window_not_found
window_not_found(label) == [kind |-> "WindowNotFound", label |-> label]

\* Error::window_operation_failed
window_operation_failed(operation, reason) ==
    [kind |-> "WindowOperationFailed", operation |-> operation, reason |-> reason,
     context |-> None]

\* Error::timeout_error
timeout_error(operation, duration_ms) ==
    [kind |-> "TimeoutError", operation |-> operation, duration_ms |-> duration_ms]

\* Error::serialization_error
serialization_error(message) == [kind |-> "SerializationError", message |-> message]

\* Error::communication_error_with_context
communication_error_with_context(message, context) ==
    [kind |-> "CommunicationError", message |-> message, context |-> Some(context)]

\* The #[error("...")] Display strings of enum Error.
ErrorToString(e) ==
    CASE e.kind = "WindowNotFound" -> <<"Window not found: ", e.label>>
      [] e.kind = "WindowOperationFailed" ->
            <<"Window operation failed: ", e.operation, " - ">> \o e.reason
      [] e.kind = "TimeoutError" ->
            <<"Operation timed out: ", e.operation, " (exceeded ",
              ToString(e.duration_ms), "ms)">>
      [] e.kind = "SerializationError" -> <<"Serialization error: ">> \o e.message
      [] e.kind = "CommunicationError" -> <<"Communication error: ">> \o e.message
      [] OTHER -> e.message

\* ------------------------------------------------------ response envelope

\* SocketResponse { success, data, error }
SocketResponse(success, data, error) ==
    [success |-> success, data |-> data, error |-> error]

\* Result<SocketResponse, Error>
Ok(response) == [tag |-> "Ok", response |-> response]

Err(error) == [tag |-> "Err", error |-> error]

\* The handler-side Ok(SocketResponse { success: false, data: None, error: Some(..) })
Failure(message) == Ok(SocketResponse(FALSE, None, Some(message)))

\* The handler-side Ok(SocketResponse { success: true, data: Some(..), error: None })
Success(data) == Ok(SocketResponse(TRUE, Some(data), None))

\* ------------------------------------------------------- command names

\* The arms of the match in handle_command, in source order.
Routed ==
    {"ping", "take-screenshot", "get-dom", "manage-local-storage", "execute-js",
     "manage-window", "simulate-text-input", "simulate-mouse-movement",
     "get-element-position", "send-text-to-element", "hot-reload",
     "get-console-logs", "inject-console-capture", "network-inspector",
     "inject-network-capture", "state-dump", "devtools-bridge", "get-exceptions",
     "inject-error-tracker", "clear-exceptions", "get-performance-metrics",
     "storage-inspector", "health-check"}

\* Routed commands whose handler module lies outside the modelled sources.
Absent ==
    {"ping", "take-screenshot", "get-dom", "manage-local-storage", "execute-js",
     "manage-window", "simulate-text-input", "simulate-mouse-movement",
     "get-element-position", "send-text-to-element"}

\* Handlers that emit a notification and return without waiting for a reply.
NotifyOnly ==
    {"inject-console-capture", "inject-network-capture", "inject-error-tracker",
     "clear-exceptions"}

\* Handlers that keep their own error enum and fold it into the envelope.
RetrieveStyle ==
    {"get-console-logs", "get-exceptions", "network-inspector", "storage-inspector"}

\* Handlers that run a generated script through "execute-js".
ScriptStyle == {"state-dump", "devtools-bridge", "get-performance-metrics"}

\* Command names no arm of the match accepts.
UnknownNames == {"frobnicate", "state_dump "}

\* The command names a client sends in the model.
CommandInputs ==
    (Routed \ Absent) \cup {"ping", "execute-js"} \cup UnknownNames

\* ------------------------------------------------------------- payloads

Labels == {"main", "aux"}

\* A timeout_ms a client supplies.
ClientTimeoutMs == 50

NetworkActions == {"get_requests", "clear_requests", "start_capture", "stop_capture"}

StorageActions == {"get_storage", "clear_storage", "list_indexeddb", "query_indexeddb"}

\* A payload that decodes into no request struct (a string, a wrongly typed field).
Garbage ==
    [typed |-> FALSE, window_label |-> None, action |-> None, storage_type |-> FALSE,
     db_store |-> FALSE, timeout_ms |-> None, limit |-> None, level |-> None,
     max_depth |-> None, resource_filter |-> None, path |-> None,
     component_filter |-> None]

\* A payload whose fields have the types the request structs ask for.
Typed(window_label, action, storage_type, db_store, timeout_ms) ==
    [typed |-> TRUE, window_label |-> window_label, action |-> action,
     storage_type |-> storage_type, db_store |-> db_store, timeout_ms |-> timeout_ms,
     limit |-> None, level |-> None, max_depth |-> None, resource_filter |-> None, path |-> None,
     component_filter |-> None]

\* A state-dump or devtools-bridge request that names a max_depth.
Dumping(max_depth) ==
    [Typed(None, None, FALSE, FALSE, None) EXCEPT !.max_depth = max_depth]

\* A state-dump request that names a path, a devtools-bridge request that names a
\* component_filter; a text is a sequence of characters.
Selecting(path, component_filter) ==
    [Typed(None, None, FALSE, FALSE, None) EXCEPT !.path = path,
                                                  !.component_filter = component_filter]

\* ResourceFilter { resource_type, min_duration_ms, max_duration_ms, .. }
ResourceFilter(resource_type, min_duration_ms, max_duration_ms) ==
    [resource_type |-> resource_type, min_duration_ms |-> min_duration_ms,
     max_duration_ms |-> max_duration_ms]

\* A get-performance-metrics request that names a resource_filter.
Measuring(resource_filter) ==
    [Typed(None, None, FALSE, FALSE, None) EXCEPT !.resource_filter = resource_filter]

\* A retrieval request that names a limit and a level (for the network inspector the
\* limit of its `filter` object; only the console request has a level).
Filtering(action, limit, level) ==
    [Typed(None, action, FALSE, FALSE, None) EXCEPT !.limit = limit, !.level = level]

OptLabels == {None} \cup {Some(l) : l \in Labels}

\* The payloads a client sends with a command: the fields the command's request
\* struct reads vary, the others are left out.
PayloadsOf(command) ==
    {Garbage} \cup
    CASE command \in ScriptStyle ->
            {Typed(w, None, FALSE, FALSE, t) :
                w \in OptLabels, t \in {None, Some(ClientTimeoutMs)}}
      [] command = "network-inspector" ->
            {Typed(w, a, FALSE, FALSE, None) :
                w \in OptLabels,
                a \in {None} \cup {Some(x) : x \in NetworkActions \cup {"bogus"}}}
      [] command = "storage-inspector" ->
            {Typed(w, a, s, d, None) :
                w \in OptLabels,
                a \in {None} \cup {Some(x) : x \in StorageActions \cup {"bogus"}},
                s \in BOOLEAN, d \in BOOLEAN}
      [] OTHER -> {Typed(w, None, FALSE, FALSE, None) : w \in OptLabels}

\* serde_json::from_value into the command's request struct: every field is an
\* Option except `action`, which the network and storage requests require.
Decodes(command, payload) ==
    /\ payload.typed
    /\ command \in {"network-inspector", "storage-inspector"} => IsSome(payload.action)

\* The label as it would be if an absent window_label meant another window.
WindowLabelOther(payload) == unwrap_or(payload.window_label, "aux")

\* request.window_label.unwrap_or_else(|| "main")
WindowLabel(payload) == unwrap_or(payload.window_label, "main")

\* ------------------------------------------ the scripts the webview is sent

\* The objects of the page a script walks. An object is a React fiber to the
\* devtools script (with a child and a sibling fiber, 0 for none, and an elementType
\* that is a function or not) and a plain object with the properties `child` and
\* `sibling` to the state-dump script; `big` says its own JSON text is longer than
\* MAX_SIZE. Object 1 is the root: hook.currentFiber, store.getState().
NFibers == 2

Fibers == 1 .. NFibers

Pages ==
    [Fibers -> [component : BOOLEAN, child : 0 .. NFibers, sibling : 0 .. NFibers,
                big : BOOLEAN]]

\* request.max_depth.unwrap_or(10)
DefaultMaxDepth == 10

\* const MAX_SIZE = 1000000
MAX_SIZE == 1000000

\* The cap on componentCount (`componentCount > 500` in the script), scaled down
\* so that a walk which runs into it stays short.
ComponentCap == 4

\* The objects an object refers to.
Refs(page, n) == {page[n].child, page[n].sibling} \ {0}

RECURSIVE Reach(_, _)
\* The objects reachable from a set of objects.
Reach(page, from) ==
    LET next == from \cup UNION {Refs(page, n) : n \in from}
    IN  IF next = from THEN from ELSE Reach(page, next)

\* The object reaches a cycle: JSON.stringify(value) throws on it.
Cyclic(page, v) ==
    \E n \in Reach(page, {v}) : n \in Reach(page, Refs(page, n))

RECURSIVE JsonLength(_, _)
\* JSON.stringify(value).length of an object that reaches no cycle.
JsonLength(page, v) ==
    IF v = 0 THEN 0
    ELSE (IF page[v].big THEN MAX_SIZE + 1 ELSE 2)
         + JsonLength(page, page[v].child) + JsonLength(page, page[v].sibling)

\* The characters of a client's text the model tells apart: a letter, the single
\* quote, the backslash and the line feed.
Chars == {"a", "quote", "backslash", "newline"}

RECURSIVE Replace(_)
\* text.replace("'", "\\'"): every single quote becomes a backslash and a quote.
Replace(text) ==
    IF text = <<>> THEN <<>>
    ELSE (IF Head(text) = "quote" THEN <<"backslash", "quote">> ELSE <<Head(text)>>)
         \o Replace(Tail(text))

\* generate_state_dump_code(max_depth, path): the script with MAX_DEPTH filled in
\* and, when the path is not empty, getByPath(result, '<path>') with the path
\* between single quotes (`literal`; None when nothing is embedded).
generate_state_dump_code(max_depth, path) ==
    [script |-> "state_dump", MAX_DEPTH |-> max_depth,
     literal |-> IF unwrap_or(path, <<>>) = <<>> THEN None ELSE Some(Replace(path[1]))]

\* generate_devtools_bridge_code(max_depth, component_filter): the script with
\* MAX_DEPTH filled in and const FILTER = '<component_filter>'.
generate_devtools_bridge_code(max_depth, component_filter) ==
    [script |-> "devtools_bridge", MAX_DEPTH |-> max_depth,
     literal |-> Some(Replace(unwrap_or(component_filter, <<>>)))]

RECURSIVE ScanLiteral(_, _)
\* How the script engine reads a single-quoted string literal whose opening quote
\* is followed by `chars` and the closing quote the generator wrote: a backslash
\* takes the next character with it, a quote ends the literal, a line feed is not
\* allowed in it.
ScanLiteral(chars, i) ==
    IF i > Len(chars) THEN "closed"
    ELSE IF chars[i] = "backslash"
    THEN (IF i = Len(chars) THEN "closing quote escaped" ELSE ScanLiteral(chars, i + 2))
    ELSE IF chars[i] = "quote" THEN "ended inside"
    ELSE IF chars[i] = "newline" THEN "line break"
    ELSE ScanLiteral(chars, i + 1)

RECURSIVE safeStringify(_, _, _, _, _)
\* safeStringify(value, depth) of the state-dump script; `st` is what it shares
\* between calls (seen, currentSize) and the markers it has put into its output.
safeStringify(page, code, value, depth, st) ==
    IF depth > code.MAX_DEPTH
    THEN [st EXCEPT !.markers = @ \cup {"[Max depth reached]"}]
    ELSE IF value = 0
    THEN st
    ELSE IF value \in st.seen
    THEN [st EXCEPT !.markers = @ \cup {"[Circular Reference]"}]
    ELSE IF ~Cyclic(page, value) /\ st.currentSize + JsonLength(page, value) > MAX_SIZE
    THEN [st EXCEPT !.markers = @ \cup {"[Size limit exceeded]"}]
    ELSE LET entered == [st EXCEPT
                            !.currentSize = IF Cyclic(page, value) THEN @
                                            ELSE @ + JsonLength(page, value),
                            !.seen = @ \cup {value}]
             child == IF page[value].child = 0 THEN entered
                      ELSE safeStringify(page, code, page[value].child, depth + 1, entered)
         IN  IF page[value].sibling = 0 THEN child
             ELSE safeStringify(page, code, page[value].sibling, depth + 1, child)

\* The state-dump script on a page whose store state is object 1: what the reply's
\* state holds (markers), which caps cut the walk, and the reply's metadata.
RunStateDump(code, page) ==
    LET st == safeStringify(page, code, 1, 0, [seen |-> {}, currentSize |-> 0, markers |-> {}])
    IN  [markers |-> st.markers,
         overflow |-> FALSE,
         depth_cut |-> "[Max depth reached]" \in st.markers,
         size_cut |-> "[Size limit exceeded]" \in st.markers,
         entry_cut |-> FALSE,
         metadata |-> [truncated |-> st.currentSize > MAX_SIZE,
                       max_depth_reached |-> FALSE,
                       errors |-> <<>>]]

RECURSIVE traverseReactTree(_, _, _, _, _, _)
\* traverseReactTree(fiber, depth, components) of the devtools script; `st` holds
\* componentCount and what happened (left_out: the walk stopped at the cap in front
\* of a component), `active` the calls on the stack. A call that
\* repeats one on the stack (same fiber, depth and componentCount) recurses without
\* end: the engine raises RangeError when its stack is full.
traverseReactTree(page, code, fiber, depth, st, active) ==
    IF fiber = 0 THEN st
    ELSE IF depth > code.MAX_DEPTH THEN [st EXCEPT !.depth_cut = TRUE]
    ELSE IF st.componentCount > ComponentCap
    THEN [st EXCEPT !.entry_cut = TRUE,
                    !.left_out = @ \/ \E f \in Reach(page, {fiber}) : page[f].component]
    ELSE IF <<fiber, depth, st.componentCount>> \in active
    THEN [st EXCEPT !.overflow = TRUE]
    ELSE LET stack == active \cup {<<fiber, depth, st.componentCount>>}
             own == IF page[fiber].component
                    THEN [st EXCEPT !.componentCount = @ + 1]
                    ELSE st
             child == IF page[fiber].child = 0 THEN own
                      ELSE traverseReactTree(page, code, page[fiber].child, depth + 1,
                                             own, stack)
         IN  IF child.overflow \/ page[fiber].sibling = 0 THEN child
             ELSE traverseReactTree(page, code, page[fiber].sibling, depth, child, stack)

\* The devtools script on a page whose hook.currentFiber is fiber 1. A RangeError is
\* caught around the React extraction and recorded in metadata.errors.
RunDevtools(code, page) ==
    LET st == traverseReactTree(page, code, 1, 0,
                                [componentCount |-> 0, overflow |-> FALSE,
                                 depth_cut |-> FALSE, entry_cut |-> FALSE,
                                 left_out |-> FALSE], {})
    IN  [markers |-> {},
         overflow |-> st.overflow,
         depth_cut |-> st.depth_cut,
         size_cut |-> FALSE,
         entry_cut |-> st.entry_cut,
         left_out |-> st.left_out,
         metadata |-> [truncated |-> st.componentCount > ComponentCap,
                       max_depth_reached |-> st.componentCount > ComponentCap,
                       total_components |-> st.componentCount,
                       errors |-> IF st.overflow
                                  THEN <<"React extraction: Maximum call stack size exceeded">>
                                  ELSE <<>>]]

\* generate_performance_metrics_code(.., resource_filter), with resources included:
\* the filter block is written into the script when the filter has a resource_type
\* or a min_duration_ms; maxDurationMs is then the filter's max_duration_ms or
\* Infinity (None here).
generate_performance_metrics_code(resource_filter) ==
    [script |-> "performance_metrics",
     filter |-> IF /\ IsSome(resource_filter)
                   /\ \/ IsSome(resource_filter[1].resource_type)
                      \/ IsSome(resource_filter[1].min_duration_ms)
                THEN Some([resourceTypeFilter |->
                               unwrap_or(resource_filter[1].resource_type, {}),
                           minDurationMs |-> unwrap_or(resource_filter[1].min_duration_ms, 0),
                           maxDurationMs |-> resource_filter[1].max_duration_ms])
                ELSE None]

\* The script's resources.forEach: a resource is skipped when the filter block is
\* there and its type is not in a non-empty resourceTypeFilter or its duration lies
\* outside minDurationMs..maxDurationMs; the others are collected in order.
RunPerformance(code, resources) ==
    LET kept(resource) ==
            \/ code.filter = None
            \/ LET f == code.filter[1]
               IN  /\ f.resourceTypeFilter = {} \/ resource.type \in f.resourceTypeFilter
                   /\ resource.duration >= f.minDurationMs
                   /\ f.maxDurationMs = None \/ resource.duration <= f.maxDurationMs[1]
    IN  [resource_timing |-> SelectSeq(resources, kept)]

\* What the webview makes of a script it is sent.
RunScript(code, page) ==
    IF code.script = "state_dump" THEN RunStateDump(code, page) ELSE RunDevtools(code, page)

\* ------------------------------------------- what a handler does before it waits

\* The handler returned `result` at the return point `exit`, having published `sent`.
Return(exit, result, sent) ==
    [tag |-> "return", exit |-> exit, result |-> result, sent |-> sent]

\* The handler published `event` to `window` and goes on to app.once and recv_timeout.
Published(window, event) ==
    [tag |-> "published", exit |-> "-", result |-> None,
     sent |-> <<[window |-> window, event |-> event]>>]

\* The handler published `event` with a filter object as its payload.
PublishedFilter(window, event, filter) ==
    [tag |-> "published", exit |-> "-", result |-> None,
     sent |-> <<[window |-> window, event |-> event, filter |-> filter]>>]

\* request.limit.unwrap_or(1000) of the console and exception requests
DefaultLimit == 1000

\* filter.limit.unwrap_or(100) of the network request, and the limit of the filter
\* the handler makes up when the request has none
NetworkDefaultLimit == 100

\* The filter payload as it would be without the level of the request.
FilterPayloadNoLevel(command, payload) ==
    [limit |-> unwrap_or(payload.limit,
                         IF command = "network-inspector" THEN NetworkDefaultLimit
                                                          ELSE DefaultLimit),
     level |-> None]

\* serde_json::json!({ "level": .., "limit": request.limit.unwrap_or(..), .. }): the
\* filter object the retrieval helper sends to the webview.
FilterPayload(command, payload) ==
    [limit |-> unwrap_or(payload.limit,
                         IF command = "network-inspector" THEN NetworkDefaultLimit
                                                          ELSE DefaultLimit),
     level |-> IF command = "get-console-logs" THEN payload.level ELSE None]

\* The text of a serde decode error, of an emit error, of a window error.
DecodeErrorText == "<decode error>"

EmitErrorText == "<emit error>"

WindowErrorText == "<window error>"

\* The name reply events carry for a task event (the protocol's fixed reply names).
ReplyTopic(event) ==
    CASE event = "get-console-logs" -> "get-console-logs-response"
      [] event = "get-exceptions" -> "get-exceptions-response"
      [] event = "get-network-requests" -> "get-network-requests-response"
      [] event = "inspect-storage" -> "inspect-storage-response"
      [] event = "execute-js" -> "execute-js-response"
      [] OTHER -> "-"

\* ScriptBegin as it would be with the window resolved before the payload is decoded.
ScriptBeginResolveFirst(what, payload, windows, emit_ok) ==
    IF WindowLabel(payload) \notin windows
    THEN Return("resolve", Err(window_not_found(WindowLabel(payload))), <<>>)
    ELSE IF ~payload.typed
    THEN Return("decode",
                Err(serialization_error(<<"Invalid payload for ", what, ": ",
                                          DecodeErrorText>>)), <<>>)
    ELSE IF ~emit_ok
    THEN Return("publish",
                Err(communication_error_with_context(
                        <<"Failed to emit execute-js event">>,
                        <<"window: ", WindowLabel(payload), ", error: ",
                          EmitErrorText>>)), <<>>)
    ELSE Published(WindowLabel(payload), "execute-js")

\* The three script handlers up to emit_to: decode, resolve the window, publish.
ScriptBegin(what, payload, windows, emit_ok) ==
    IF ~payload.typed
    THEN Return("decode",
                Err(serialization_error(<<"Invalid payload for ", what, ": ",
                                          DecodeErrorText>>)), <<>>)
    ELSE IF WindowLabel(payload) \notin windows
    THEN Return("resolve", Err(window_not_found(WindowLabel(payload))), <<>>)
    ELSE IF ~emit_ok
    THEN Return("publish",
                Err(communication_error_with_context(
                        <<"Failed to emit execute-js event">>,
                        <<"window: ", WindowLabel(payload), ", error: ",
                          EmitErrorText>>)), <<>>)
    ELSE Published(WindowLabel(payload), "execute-js")

\* The published event carries the generated script as its payload.
WithCode(step, code) ==
    IF step.tag = "published"
    THEN [step EXCEPT !.sent = <<[window |-> step.sent[1].window,
                                  event |-> step.sent[1].event, code |-> code]>>]
    ELSE step

handle_state_dump_begin(payload, windows, emit_ok) ==
    WithCode(ScriptBegin("state_dump", payload, windows, emit_ok),
             generate_state_dump_code(unwrap_or(payload.max_depth, DefaultMaxDepth),
                                      payload.path))

handle_devtools_bridge_begin(payload, windows, emit_ok) ==
    WithCode(ScriptBegin("devtools_bridge", payload, windows, emit_ok),
             generate_devtools_bridge_code(unwrap_or(payload.max_depth, DefaultMaxDepth),
                                           payload.component_filter))

handle_get_performance_metrics_begin(payload, windows, emit_ok) ==
    WithCode(ScriptBegin("performance metrics", payload, windows, emit_ok),
             generate_performance_metrics_code(payload.resource_filter))

\* A retrieval handler up to emit_to: the handler decodes and resolves the window,
\* its helper publishes; a failed emit is the helper's WebviewOperation error, which
\* the handler folds into the envelope.
RetrieveBegin(command, what, prefix, event, payload, windows, emit_ok) ==
    IF ~Decodes(command, payload)
    THEN Return("decode",
                Err(serialization_error(<<"Invalid payload for ", what, ": ",
                                          DecodeErrorText>>)), <<>>)
    ELSE IF WindowLabel(payload) \notin windows
    THEN Return("resolve", Err(window_not_found(WindowLabel(payload))), <<>>)
    ELSE IF ~emit_ok
    THEN Return("publish",
                Failure(<<prefix, "Failed to emit event: ", EmitErrorText>>), <<>>)
    ELSE PublishedFilter(WindowLabel(payload), event, FilterPayload(command, payload))

handle_get_console_logs_begin(payload, windows, emit_ok) ==
    RetrieveBegin("get-console-logs", "console logs", "Console operation error: ",
                  "get-console-logs", payload, windows, emit_ok)

handle_get_exceptions_begin(payload, windows, emit_ok) ==
    RetrieveBegin("get-exceptions", "error tracker", "Error tracking operation error: ",
                  "get-exceptions", payload, windows, emit_ok)

\* handle_network_inspector and the helper its action selects: get_requests goes on
\* to wait for a reply, the three other actions publish and return at once.
handle_network_inspector_begin(payload, windows, emit_ok) ==
    LET action == unwrap_or(payload.action, "")
        label == WindowLabel(payload)
        event == CASE action = "clear_requests" -> "clear-network-requests"
                   [] action = "start_capture" -> "start-network-capture"
                   [] action = "stop_capture" -> "stop-network-capture"
                   [] OTHER -> "get-network-requests"
    IN  IF ~Decodes("network-inspector", payload)
        THEN Return("decode",
                    Err(serialization_error(<<"Invalid payload for network inspector: ",
                                              DecodeErrorText>>)), <<>>)
        ELSE IF label \notin windows
        THEN Return("resolve", Err(window_not_found(label)), <<>>)
        ELSE IF action \notin NetworkActions
        THEN Return("validate", Failure(<<"Parse error: ", "Unknown action: ", action>>),
                    <<>>)
        ELSE IF ~emit_ok
        THEN Return("publish",
                    Failure(<<"Network operation error: ", "Failed to emit event: ",
                              EmitErrorText>>), <<>>)
        ELSE IF action = "get_requests"
        THEN PublishedFilter(label, event, FilterPayload("network-inspector", payload))
        ELSE Return("notify",
                    Success([requests |-> <<>>, total_count |-> 0, returned_count |-> 0,
                             capture_active |-> action # "stop_capture"]),
                    <<[window |-> label, event |-> event]>>)

\* handle_get_storage_inspector as it would be with the window resolved before the
\* action is validated.
handle_get_storage_inspector_resolving(payload, windows, emit_ok) ==
    LET action == unwrap_or(payload.action, "")
        label == WindowLabel(payload)
    IN  IF ~Decodes("storage-inspector", payload)
        THEN Return("decode",
                    Err(serialization_error(<<"Invalid payload for storage inspector: ",
                                              DecodeErrorText>>)), <<>>)
        ELSE IF label \notin windows
        THEN Return("resolve", Err(window_not_found(label)), <<>>)
        ELSE IF action \in {"get_storage", "clear_storage"} /\ ~payload.storage_type
        THEN Return("validate",
                    Failure(<<"storage_type is required for ", action, " action">>), <<>>)
        ELSE IF action = "query_indexeddb" /\ ~payload.db_store
        THEN Return("validate",
                    Failure(<<"db_name and store_name are required for ", action,
                              " action">>), <<>>)
        ELSE IF action \notin StorageActions
        THEN Return("validate",
                    Failure(<<"Unsupported storage inspector action: ", action>>), <<>>)
        ELSE IF ~emit_ok
        THEN Return("publish",
                    Failure(<<"Storage operation error: ", "Failed to emit event: ",
                              EmitErrorText>>), <<>>)
        ELSE Published(label, "inspect-storage")

\* handle_get_storage_inspector validates the action before it resolves the window.
handle_get_storage_inspector_begin(payload, windows, emit_ok) ==
    LET action == unwrap_or(payload.action, "")
        label == WindowLabel(payload)
    IN  IF ~Decodes("storage-inspector", payload)
        THEN Return("decode",
                    Err(serialization_error(<<"Invalid payload for storage inspector: ",
                                              DecodeErrorText>>)), <<>>)
        ELSE IF action \in {"get_storage", "clear_storage"} /\ ~payload.storage_type
        THEN Return("validate",
                    Failure(<<"storage_type is required for ", action, " action">>), <<>>)
        ELSE IF action = "query_indexeddb" /\ ~payload.db_store
        THEN Return("validate",
                    Failure(<<"db_name and store_name are required for ", action,
                              " action">>), <<>>)
        ELSE IF action \notin StorageActions
        THEN Return("validate",
                    Failure(<<"Unsupported storage inspector action: ", action>>), <<>>)
        ELSE IF label \notin windows
        THEN Return("resolve", Err(window_not_found(label)), <<>>)
        ELSE IF ~emit_ok
        THEN Return("publish",
                    Failure(<<"Storage operation error: ", "Failed to emit event: ",
                              EmitErrorText>>), <<>>)
        ELSE Published(label, "inspect-storage")

\* window.emit(event, ()): Emitter::emit called on the window's handle. The event
\* goes to every target (every window's listeners and the app's); only emit_to
\* names the targets.
Broadcast(window, event) == [window |-> window, event |-> event, to |-> "all"]

\* The targets an event record was published to.
EmitTarget(ev) == IF "to" \in DOMAIN ev THEN ev.to ELSE ev.window

\* The four notify-only handlers: decode, resolve the window, window.emit, return.
NotifyHandler(what, failed, event, data, payload, windows, emit_ok) ==
    IF ~payload.typed
    THEN Return("decode",
                Err(serialization_error(<<"Invalid payload for ", what, ": ",
                                          DecodeErrorText>>)), <<>>)
    ELSE IF WindowLabel(payload) \notin windows
    THEN Return("resolve", Err(window_not_found(WindowLabel(payload))), <<>>)
    ELSE IF ~emit_ok
    THEN Return("publish",
                Err(communication_error_with_context(
                        <<failed>>,
                        <<"window: ", WindowLabel(payload), ", error: ",
                          EmitErrorText>>)), <<>>)
    ELSE Return("notify", Success(data), <<Broadcast(WindowLabel(payload), event)>>)

handle_inject_console_capture(payload, windows, emit_ok) ==
    NotifyHandler("injection", "Failed to emit injection event", "inject-console-capture",
                  [message |-> "Console capture injected"], payload, windows, emit_ok)

handle_inject_network_capture(payload, windows, emit_ok) ==
    NotifyHandler("injection", "Failed to emit injection event", "inject-network-capture",
                  [message |-> "Network capture injected"], payload, windows, emit_ok)

\* circular_buffer_size of the request, when absent
DefaultCircularBufferSize == 1000

handle_inject_error_tracker(payload, windows, emit_ok) ==
    NotifyHandler("error tracker injection", "Failed to emit injection event",
                  "inject-error-tracker",
                  [message |-> "Error tracking script injected successfully",
                   circular_buffer_size |-> DefaultCircularBufferSize],
                  payload, windows, emit_ok)

handle_clear_exceptions(payload, windows, emit_ok) ==
    NotifyHandler("clear exceptions", "Failed to emit clear event", "clear-exceptions",
                  [message |-> "Exceptions cleared"], payload, windows, emit_ok)

\* handle_hot_reload: window.url() and window.navigate() can each fail.
handle_hot_reload(payload, windows, url_ok, navigate_ok) ==
    LET label == WindowLabel(payload)
    IN  IF ~payload.typed
        THEN Return("decode",
                    Err(serialization_error(<<"Invalid payload for hot_reload: ",
                                              DecodeErrorText>>)), <<>>)
        ELSE IF label \notin windows
        THEN Return("resolve", Err(window_not_found(label)), <<>>)
        ELSE IF ~url_ok
        THEN Return("local",
                    Err(window_operation_failed("get window URL", <<WindowErrorText>>)),
                    <<>>)
        ELSE IF navigate_ok
        THEN Return("local",
                    Success([success |-> TRUE, window_label |-> label,
                             message |-> <<"Successfully reloaded window: ", label>>]),
                    <<>>)
        ELSE Return("local",
                    Failure(<<"Failed to reload window ", label, ": ", WindowErrorText>>),
                    <<>>)

\* detect_capabilities
detect_capabilities ==
    {"take_screenshot", "get_dom", "execute_js", "manage_window", "simulate_text_input",
     "simulate_mouse_movement", "get_element_position", "send_text_to_element",
     "manage_local_storage", "hot_reload", "get_console_logs", "inject_console_capture",
     "network_inspector", "inject_network_capture", "state_dump", "get_exceptions",
     "inject_error_tracker", "clear_exceptions", "get_performance_metrics",
     "health_check"}

\* handle_health_check as it would be if it resolved the main window first.
handle_health_check_resolving(payload, windows) ==
    IF "main" \notin windows
    THEN Return("resolve", Err(window_not_found("main")), <<>>)
    ELSE Return("local",
                Success([status |-> "healthy",
                         capabilities |-> {"health_check"},
                         connection_status |-> [socket_server_running |-> TRUE,
                                                event_system_available |-> TRUE],
                         webview_status |-> [webview_available |-> TRUE,
                                             main_window_available |-> TRUE]]),
                <<>>)

\* handle_health_check reads neither the payload nor the target window.
handle_health_check(payload, windows) ==
    Return("local",
           Success([status |-> "healthy",
                    capabilities |-> detect_capabilities,
                    connection_status |-> [socket_server_running |-> TRUE,
                                           event_system_available |-> TRUE],
                    webview_status |-> [webview_available |-> TRUE,
                                        main_window_available |-> "main" \in windows]]),
           <<>>)

\* A handler outside the modelled sources: by the handler contract it returns a
\* well-formed envelope or an Error.
handle_absent(outcome) ==
    Return("absent",
           CASE outcome = "success" -> Success([message |-> "done"])
             [] outcome = "failure" -> Failure(<<"failed">>)
             [] OTHER -> Err([kind |-> "Anyhow", message |-> <<"failed">>]),
           <<>>)

\* What the calls a handler makes into the host can come to: emit and emit_to, the
\* window's url() and navigate(), and the handlers outside the modelled sources.
IoOutcomes(command) ==
    CASE command \in Absent -> {"success", "failure", "error"}
      [] command = "hot-reload" -> {"ok", "url_fails", "navigate_fails"}
      [] command \in NotifyOnly \cup RetrieveStyle \cup ScriptStyle -> {"ok", "emit_fails"}
      [] OTHER -> {"ok"}

\* The fallback arm as it would be with a fixed message.
UnknownCommandNoName(command) ==
    Return("unknown", Failure(<<"Unknown command">>), <<>>)

\* The arm of the match for a name no constant equals.
UnknownCommand(command) ==
    Return("unknown", Failure(<<"Unknown command: ", command>>), <<>>)

\* ------------------------------------------------ replies and what follows them

\* What the payload string of a reply event can look like.
ReplyShapes ==
    {"not_json",        \* not JSON at all
     "error_string",    \* {"error": "<message>"}
     "error_object",    \* {"error": {...}}, the error is not a string
     "result_json",     \* {"result": "<JSON text>"}
     "result_text",     \* {"result": "<text that is not JSON>"}
     "result_number",   \* {"result": 42}
     "fields"}          \* an object without "error" and "result": {"logs": [], "data": ..}

RemoteErrorText == "<remote error>"

ParseErrorText == "<parse error>"

\* Display of mpsc::RecvTimeoutError::Timeout
RecvTimeoutText == "timed out waiting on channel"

\* Default timeouts, in the unit the code writes them in.
StateDumpDefaultTimeoutMs == 5000

DevtoolsDefaultTimeoutMs == 5000

PerformanceDefaultTimeoutMs == 10000

ConsoleLogsTimeoutSecs == 10

ExceptionsTimeoutSecs == 10

NetworkRequestsTimeoutSecs == 15

StorageTimeoutSecs == 10

\* The duration the handler passes to rx.recv_timeout, in milliseconds.
RecvTimeoutMs(command, payload) ==
    CASE command = "state-dump" -> unwrap_or(payload.timeout_ms, StateDumpDefaultTimeoutMs)
      [] command = "devtools-bridge" ->
            unwrap_or(payload.timeout_ms, DevtoolsDefaultTimeoutMs)
      [] command = "get-performance-metrics" ->
            unwrap_or(payload.timeout_ms, PerformanceDefaultTimeoutMs)
      [] command = "get-console-logs" -> ConsoleLogsTimeoutSecs * 1000
      [] command = "get-exceptions" -> ExceptionsTimeoutSecs * 1000
      [] command = "network-inspector" -> NetworkRequestsTimeoutSecs * 1000
      [] command = "storage-inspector" -> StorageTimeoutSecs * 1000
      [] OTHER -> 0

\* ScriptEnd as it would be with the parse error of a raw result put into the
\* envelope's error field next to the data.
ScriptEndErrorBesideData(operation, response_name, result_name, duration_ms, received) ==
    IF received = None
    THEN Err(timeout_error(operation, duration_ms))
    ELSE LET shape == received[1].shape
         IN  CASE shape = "not_json" ->
                    Err(serialization_error(<<"Failed to parse ", response_name,
                                              " response: ", ParseErrorText>>))
               [] shape = "error_string" -> Failure(<<RemoteErrorText>>)
               [] shape = "result_json" -> Success([parsed |-> "result"])
               [] shape = "result_text" ->
                    Ok(SocketResponse(TRUE, Some([raw_result |-> "result"]),
                                      Some(<<ParseErrorText>>)))
               [] shape = "result_number" -> Failure(<<result_name, " result is not a string">>)
               [] OTHER -> Failure(<<"No result in ", response_name, " response">>)

\* A script handler from recv_timeout on; `received` is None when the wait timed out.
ScriptEnd(operation, response_name, result_name, duration_ms, received) ==
    IF received = None
    THEN Err(timeout_error(operation, duration_ms))
    ELSE LET shape == received[1].shape
         IN  CASE shape = "not_json" ->
                    Err(serialization_error(<<"Failed to parse ", response_name,
                                              " response: ", ParseErrorText>>))
               [] shape = "error_string" -> Failure(<<RemoteErrorText>>)
               [] shape = "result_json" -> Success([parsed |-> "result"])
               [] shape = "result_text" ->
                    Success([raw_result |-> "result", parse_error |-> ParseErrorText])
               [] shape = "result_number" -> Failure(<<result_name, " result is not a string">>)
               [] OTHER -> Failure(<<"No result in ", response_name, " response">>)

handle_state_dump_end(payload, received) ==
    ScriptEnd("state dump execution", "state dump", "State dump",
              RecvTimeoutMs("state-dump", payload), received)

handle_devtools_bridge_end(payload, received) ==
    ScriptEnd("devtools bridge execution", "devtools", "DevTools",
              RecvTimeoutMs("devtools-bridge", payload), received)

handle_get_performance_metrics_end(payload, received) ==
    ScriptEnd("performance metrics execution", "performance metrics",
              "Performance metrics", RecvTimeoutMs("get-performance-metrics", payload),
              received)

\* RetrieveEnd as it would be if the helper's WebviewOperation error were propagated.
RetrieveEndRemoteErr(prefix, waiting_for, collection, received) ==
    IF received = None
    THEN Failure(<<"Operation timed out: ", "Timeout waiting for ", waiting_for,
                   " response: ", RecvTimeoutText>>)
    ELSE LET shape == received[1].shape
             entries == received[1].entries
         IN  CASE shape = "not_json" ->
                    Failure(<<"Parse error: ", "Failed to parse response: ",
                              ParseErrorText>>)
               [] shape = "error_string" ->
                    Err([kind |-> "Anyhow", message |-> <<prefix, RemoteErrorText>>])
               [] OTHER ->
                    Success([collection |-> collection, entries |-> entries,
                             total_count |-> unwrap_or(received[1].total_count,
                                                       Len(entries)),
                             returned_count |-> Len(entries)])

\* A retrieval helper from recv_timeout on, and the handler's match on its result.
\* The entries are the reply's array (none when the reply has no such field), the
\* total is the reply's total_count or, without one, the length of the array, and
\* returned_count is the length of the array.
RetrieveEnd(prefix, waiting_for, collection, received) ==
    IF received = None
    THEN Failure(<<"Operation timed out: ", "Timeout waiting for ", waiting_for,
                   " response: ", RecvTimeoutText>>)
    ELSE LET shape == received[1].shape
             entries == received[1].entries
         IN  CASE shape = "not_json" ->
                    Failure(<<"Parse error: ", "Failed to parse response: ",
                              ParseErrorText>>)
               [] shape = "error_string" -> Failure(<<prefix, RemoteErrorText>>)
               [] OTHER ->
                    Success([collection |-> collection, entries |-> entries,
                             total_count |-> unwrap_or(received[1].total_count,
                                                       Len(entries)),
                             returned_count |-> Len(entries)])

handle_get_console_logs_end(payload, received) ==
    RetrieveEnd("Console operation error: ", "console logs", "logs", received)

handle_get_exceptions_end(payload, received) ==
    RetrieveEnd("Error tracking operation error: ", "error tracker", "exceptions",
                received)

\* capture_active of the get_requests response: the reply's field when it is a
\* boolean, false otherwise (response.get("capture_active") .. unwrap_or(false)).
handle_network_inspector_end(payload, received) ==
    LET returned == RetrieveEnd("Network operation error: ", "network inspector",
                                "requests", received)
    IN  IF returned.tag = "Ok" /\ returned.response.success
        THEN Success(returned.response.data[1] @@
                     [capture_active |->
                         IF "capture_active" \in DOMAIN received[1]
                         THEN received[1].capture_active ELSE FALSE])
        ELSE returned

handle_get_storage_inspector_end(payload, received) ==
    IF received = None
    THEN Failure(<<"Operation timed out: ", "Timeout waiting for ", "storage inspector",
                   " response: ", RecvTimeoutText>>)
    ELSE LET shape == received[1].shape
         IN  CASE shape = "not_json" ->
                    Failure(<<"JavaScript error: ", "Failed to parse response: ",
                              ParseErrorText>>)
               [] shape = "error_string" -> Failure(<<"JavaScript error: ", RemoteErrorText>>)
               [] shape = "error_object" -> Failure(<<"JavaScript error: ", "Unknown error">>)
               [] shape = "fields" -> Success([value |-> "data"])
               [] OTHER -> Success([value |-> "null"])

\* ------------------------------------------------------------ the dispatcher

\* handle_command: the match on the command name, up to the point where the
\* selected handler returns or has published its task.
handle_command(command, payload, windows, io) ==
    LET emit_ok == io # "emit_fails"
    IN
    CASE command \in Absent -> handle_absent(io)
      [] command = "hot-reload" ->
            handle_hot_reload(payload, windows, io # "url_fails", io # "navigate_fails")
      [] command = "get-console-logs" ->
            handle_get_console_logs_begin(payload, windows, emit_ok)
      [] command = "inject-console-capture" ->
            handle_inject_console_capture(payload, windows, emit_ok)
      [] command = "network-inspector" ->
            handle_network_inspector_begin(payload, windows, emit_ok)
      [] command = "inject-network-capture" ->
            handle_inject_network_capture(payload, windows, emit_ok)
      [] command = "state-dump" -> handle_state_dump_begin(payload, windows, emit_ok)
      [] command = "devtools-bridge" ->
            handle_devtools_bridge_begin(payload, windows, emit_ok)
      [] command = "get-exceptions" -> handle_get_exceptions_begin(payload, windows, emit_ok)
      [] command = "inject-error-tracker" ->
            handle_inject_error_tracker(payload, windows, emit_ok)
      [] command = "clear-exceptions" -> handle_clear_exceptions(payload, windows, emit_ok)
      [] command = "get-performance-metrics" ->
            handle_get_performance_metrics_begin(payload, windows, emit_ok)
      [] command = "storage-inspector" ->
            handle_get_storage_inspector_begin(payload, windows, emit_ok)
      [] command = "health-check" -> handle_health_check(payload, windows)
      [] OTHER -> UnknownCommand(command)

\* handle_command from the handler's recv_timeout on: the handler's result is
\* logged and returned as it is.
handle_command_end(command, payload, received) ==
    CASE command = "get-console-logs" -> handle_get_console_logs_end(payload, received)
      [] command = "network-inspector" -> handle_network_inspector_end(payload, received)
      [] command = "state-dump" -> handle_state_dump_end(payload, received)
      [] command = "devtools-bridge" -> handle_devtools_bridge_end(payload, received)
      [] command = "get-exceptions" -> handle_get_exceptions_end(payload, received)
      [] command = "get-performance-metrics" ->
            handle_get_performance_metrics_end(payload, received)
      [] OTHER -> handle_get_storage_inspector_end(payload, received)

\* --------------------------------------------------- the log of the response

\* The number of bytes the preview of the response data is cut to.
PreviewLimit == 1000

\* The UTF-8 widths of a character, and the most characters the model tells apart
\* at the end of a text.
CharWidths == {1, 2, 3, 4}

MaxTail == 2

\* The JSON text of the response data, serde_json::to_string(data): `pad` ASCII
\* bytes followed by characters of the UTF-8 widths `tail` (serde_json writes a
\* non-ASCII character of a string as its UTF-8 bytes, unescaped).
Texts ==
    [pad : (PreviewLimit - 3) .. PreviewLimit,
     tail : UNION {[1..n -> CharWidths] : n \in 0..MaxTail}]

RECURSIVE Sum(_)
Sum(seq) == IF seq = <<>> THEN 0 ELSE Head(seq) + Sum(Tail(seq))

\* data_str.len(), in bytes
ByteLen(text) == text.pad + Sum(text.tail)

\* str::is_char_boundary
is_char_boundary(text, index) ==
    \/ index <= text.pad
    \/ \E k \in 1..Len(text.tail) : index = text.pad + Sum(SubSeq(text.tail, 1, k))

\* The text of the data of a response made from `reply`: the text the reply brings
\* with it, a short ASCII text otherwise.
DataStr(reply) ==
    IF "text" \in DOMAIN reply THEN reply.text ELSE [pad |-> 2, tail |-> <<>>]

\* &data_str[..1000.min(data_str.len())], taken when data_str.len() > 1000: the
\* slice panics when its end is not a character boundary.
PreviewPanics(data_str) ==
    /\ ByteLen(data_str) > PreviewLimit
    /\ ~is_char_boundary(data_str, IF PreviewLimit < ByteLen(data_str)
                                   THEN PreviewLimit ELSE ByteLen(data_str))

\* The logging at the end of handle_command panics on this handler result.
LogPanics(returned, reply) ==
    /\ returned.tag = "Ok"
    /\ returned.response.data # None
    /\ PreviewPanics(DataStr(reply))

\* ------------------------------------------------------------------ state

VARIABLES
    windows,    \* the labels the window registry resolves (app.get_webview_window)
    pc,         \* where each dispatch stands: idle, published, waiting, done
    cmd,        \* the command name of each dispatch
    payload,    \* its payload
    sent,       \* the events each dispatch has published to a window, in order
    listeners,  \* the app's event listeners: [event, tx], tx the call whose channel
                \* the once-closure sends into
    chan,       \* each dispatch's mpsc channel (tx.send appends, recv takes the head)
    got,        \* the reply each dispatch took from its channel, if any
    exit,       \* the return point each finished dispatch left its handler at
    result,     \* what handle_command returned
    ctx,        \* what the webview made of each dispatch's task: none, pending,
                \* answered (replied while the call was still running), late
    prior       \* the calls that had timed out when this dispatch began

vars == <<windows, pc, cmd, payload, sent, listeners, chan, got, exit, result, ctx, prior>>

InFlight(c) == pc[c] \in {"published", "waiting"}

TimedOut(c) == pc[c] = "done" /\ exit[c] = "timeout"

\* The reply topic the call listens on.
TopicOf(c) == ReplyTopic(sent[c][1].event)

\* The requests a client can send: a command name with one of its payloads.
Requests ==
    UNION {{[command |-> k, payload |-> p] : p \in PayloadsOf(k)} : k \in CommandInputs}

\* The requests that reach the bridge when their window exists: the seven
\* bridge-backed commands with a payload that passes decoding and validation.
BridgeRequests ==
    {r \in Requests :
        /\ r.command \in RetrieveStyle \cup ScriptStyle
        /\ r.payload.typed
        /\ r.payload.timeout_ms = None
        /\ r.payload.window_label = None
        /\ r.command = "network-inspector" => r.payload.action = Some("get_requests")
        /\ r.command = "storage-inspector" =>
              r.payload.action = Some("list_indexeddb") /\ r.payload.storage_type
                                                         /\ r.payload.db_store}

\* The reply shapes the concurrent runs tell apart.
BridgeReplyShapes == {"error_string", "result_json"}

Start ==
    /\ pc = [c \in Calls |-> "idle"]
    /\ cmd = [c \in Calls |-> "-"]
    /\ payload = [c \in Calls |-> Garbage]
    /\ sent = [c \in Calls |-> <<>>]
    /\ listeners = {}
    /\ chan = [c \in Calls |-> <<>>]
    /\ got = [c \in Calls |-> None]
    /\ exit = [c \in Calls |-> "-"]
    /\ result = [c \in Calls |-> None]
    /\ ctx = [c \in Calls |-> "none"]
    /\ prior = [c \in Calls |-> {}]

Init ==
    /\ windows \in {{}, {"main"}, {"main", "aux"}}
    /\ Start

\* ---------------------------------------------------------------- actions

\* A client request arrives and handle_command runs until the handler returns or
\* has published its task (emit_to) and not yet registered its listener.
Dispatch(c, requests) ==
    /\ pc[c] = "idle"
    /\ \A k \in Calls : k < c => pc[k] # "idle"
    /\ \E r \in requests :
         \E io \in IoOutcomes(r.command) :
            LET step == handle_command(r.command, r.payload, windows, io)
            IN  /\ cmd' = [cmd EXCEPT ![c] = r.command]
                /\ payload' = [payload EXCEPT ![c] = r.payload]
                /\ sent' = [sent EXCEPT ![c] = step.sent]
                /\ prior' = [prior EXCEPT ![c] = {k \in Calls : TimedOut(k)}]
                /\ IF step.tag = "return"
                   THEN /\ pc' = [pc EXCEPT ![c] = "done"]
                        /\ exit' = [exit EXCEPT ![c] = step.exit]
                        /\ result' = [result EXCEPT ![c] = Some(step.result)]
                        /\ ctx' = ctx
                   ELSE /\ pc' = [pc EXCEPT ![c] = "published"]
                        /\ ctx' = [ctx EXCEPT ![c] = "pending"]
                        /\ UNCHANGED <<exit, result>>
    /\ UNCHANGED <<windows, listeners, chan, got>>

\* app.once(reply topic, move |event| { let _ = tx.send(payload) })
Once(c) ==
    /\ pc[c] = "published"
    /\ listeners' = listeners \cup {[event |-> TopicOf(c), tx |-> c]}
    /\ pc' = [pc EXCEPT ![c] = "waiting"]
    /\ UNCHANGED <<windows, cmd, payload, sent, chan, got, exit, result, ctx, prior>>

\* rx.recv_timeout returns Ok: the handler shapes the reply and returns, and
\* handle_command logs the result (with a preview of its data) and returns it. A
\* panic in the logging unwinds the dispatch: nothing is returned.
Recv(c) ==
    /\ pc[c] = "waiting"
    /\ chan[c] # <<>>
    /\ got' = [got EXCEPT ![c] = Some(Head(chan[c]))]
    /\ chan' = [chan EXCEPT ![c] = Tail(chan[c])]
    /\ LET returned == handle_command_end(cmd[c], payload[c], Some(Head(chan[c])))
       IN  IF LogPanics(returned, Head(chan[c]))
           THEN /\ pc' = [pc EXCEPT ![c] = "panicked"]
                /\ exit' = [exit EXCEPT ![c] = "panic"]
                /\ result' = result
           ELSE /\ result' = [result EXCEPT ![c] = Some(returned)]
                /\ exit' = [exit EXCEPT ![c] = "reply"]
                /\ pc' = [pc EXCEPT ![c] = "done"]
    /\ UNCHANGED <<windows, cmd, payload, sent, listeners, ctx, prior>>

\* The wait as it would be with rx.recv(): no deadline ever ends it.
RecvBlocking(c) ==
    /\ pc[c] = "waiting"
    /\ FALSE
    /\ UNCHANGED vars

\* The timeout as it would be if the handler published its task a second time and
\* waited again before giving up.
RecvTimeoutRetry(c) ==
    /\ pc[c] = "waiting"
    /\ chan[c] = <<>>
    /\ IF Len(sent[c]) < 2
       THEN /\ sent' = [sent EXCEPT ![c] = Append(sent[c], sent[c][1])]
            /\ UNCHANGED <<pc, exit, result>>
       ELSE /\ result' = [result EXCEPT
                            ![c] = Some(handle_command_end(cmd[c], payload[c], None))]
            /\ exit' = [exit EXCEPT ![c] = "timeout"]
            /\ pc' = [pc EXCEPT ![c] = "done"]
            /\ sent' = sent
    /\ UNCHANGED <<windows, cmd, payload, listeners, chan, got, ctx, prior>>

\* rx.recv_timeout returns Err(Timeout): nothing arrived before the deadline. The
\* handler returns; the listener it registered stays in the listener table.
RecvTimeout(c) ==
    /\ pc[c] = "waiting"
    /\ chan[c] = <<>>
    /\ result' = [result EXCEPT ![c] = Some(handle_command_end(cmd[c], payload[c], None))]
    /\ exit' = [exit EXCEPT ![c] = "timeout"]
    /\ pc' = [pc EXCEPT ![c] = "done"]
    /\ UNCHANGED <<windows, cmd, payload, sent, listeners, chan, got, ctx, prior>>

\* The payload of a reply event: its shape, the entries of its array and its
\* total_count field if it has them, and (for reference, not part of the payload)
\* the task it answers and the buffer the webview held.
Reply(c, shape, entries, total_count, held) ==
    [task |-> c, shape |-> shape, entries |-> entries, total_count |-> total_count,
     held |-> held]

\* The reply event is emitted on the topic of call c: every listener registered
\* for it runs once and is removed, and sends the payload into its channel.
Emit(c, reply) ==
    LET fired == {l \in listeners : l.event = TopicOf(c)}
    IN  /\ listeners' = listeners \ fired
        /\ chan' = [k \in Calls |->
                      IF pc[k] = "waiting" /\ \E l \in fired : l.tx = k
                      THEN Append(chan[k], reply)
                      ELSE chan[k]]

\* The webview finishes the task of call c and emits the reply event. Every
\* listener registered for the event runs once and is removed; its tx.send
\* succeeds while the receiving end is alive, that is, while its call waits.
ContextReply(c, shapes) ==
    /\ ctx[c] = "pending"
    /\ \E shape \in shapes :
         Emit(c, Reply(c, shape, <<>>, None, <<>>))
    /\ ctx' = [ctx EXCEPT ![c] = IF InFlight(c) THEN "answered" ELSE "late"]
    /\ UNCHANGED <<windows, pc, cmd, payload, sent, got, exit, result, prior>>

\* One client, any request: the dispatcher and every handler, one dispatch at a time.
Next ==
    \/ Dispatch(1, Requests)
    \/ Once(1)
    \/ Recv(1)
    \/ RecvTimeout(1)
    \/ ContextReply(1, ReplyShapes)

Spec == Init /\ [][Next]_vars

\* Several clients whose requests reach the bridge, interleaved in every order.
BridgeInit ==
    /\ windows = {"main"}
    /\ Start

BridgeNext ==
    \E c \in Calls :
        \/ Dispatch(c, BridgeRequests)
        \/ Once(c)
        \/ Recv(c)
        \/ RecvTimeout(c)
        \/ ContextReply(c, BridgeReplyShapes)

BridgeSpec == BridgeInit /\ [][BridgeNext]_vars

\* The same clients under the scheduling the code runs with: a handler that has
\* started runs to its end (the thread goes on to app.once, and recv_timeout
\* returns when a reply is there or the deadline has passed). Nothing obliges a
\* client to send a request or the webview to reply. Two commands that share a
\* reply topic and one with a topic of its own stand for the seven.
LiveRequests ==
    {r \in BridgeRequests :
        r.command \in {"state-dump", "devtools-bridge", "get-console-logs"}}

LiveReplyShapes == {"result_json"}

LiveNext ==
    \E c \in Calls :
        \/ Dispatch(c, LiveRequests)
        \/ Once(c)
        \/ Recv(c)
        \/ RecvTimeout(c)
        \/ ContextReply(c, LiveReplyShapes)

LiveFair ==
    \A c \in Calls : WF_vars(Once(c)) /\ WF_vars(Recv(c)) /\ WF_vars(RecvTimeout(c))

LiveSpec == BridgeInit /\ [][LiveNext]_vars /\ LiveFair

\* ------------------------------------------------- retrievals and their counts

\* The most entries the webview buffers, and the largest limit a client names.
MaxEntries == 3

MaxLimit == 2

\* The levels of the buffered entries the model tells apart.
Levels == {"error", "info"}

\* What the webview can hold: the levels of its buffered entries, oldest first.
Buffers == UNION {[1 .. n -> Levels] : n \in 0 .. MaxEntries}

Min(a, b) == IF a <= b THEN a ELSE b

\* Retrieval requests for the main window with a limit and, for the console, a level.
RetrieveRequests ==
    LET limits == {None} \cup {Some(n) : n \in 0 .. MaxLimit}
    IN  {[command |-> "get-console-logs", payload |-> Filtering(None, l, v)] :
            l \in limits, v \in {None} \cup {Some(x) : x \in Levels}}
        \cup {[command |-> "get-exceptions", payload |-> Filtering(None, l, None)] :
                l \in limits}
        \cup {[command |-> "network-inspector",
                payload |-> Filtering(Some("get_requests"), l, None)] : l \in limits}

\* The buffered entries a filter selects: those of its level, or all without one.
Matching(held, filter) ==
    SelectSeq(held, LAMBDA e : filter.level \in {None, Some("all")} \/ filter.level = Some(e))

\* The webview's side of a retrieval: it applies the filter to its buffer, counts
\* what matches, and returns the first `limit` of the matching entries.
ServeEntries(held, filter) ==
    LET matching == Matching(held, filter)
    IN  [entries |-> SubSeq(matching, 1, Min(filter.limit, Len(matching))),
         total_count |-> Some(Len(matching))]

\* A webview that replies to a retrieval with any array and any total_count.
ContextReplyEntries(c) ==
    /\ ctx[c] = "pending"
    /\ \E held \in Buffers, entries \in Buffers :
         \E total_count \in {None} \cup {Some(n) : n \in 0 .. MaxEntries} :
            Emit(c, Reply(c, "fields", entries, total_count, held))
    /\ ctx' = [ctx EXCEPT ![c] = IF InFlight(c) THEN "answered" ELSE "late"]
    /\ UNCHANGED <<windows, pc, cmd, payload, sent, got, exit, result, prior>>

\* A webview that serves the retrieval from its buffer.
ContextServe(c) ==
    /\ ctx[c] = "pending"
    /\ \E held \in Buffers :
         LET served == ServeEntries(held, sent[c][1].filter)
         IN  Emit(c, Reply(c, "fields", served.entries, served.total_count, held))
    /\ ctx' = [ctx EXCEPT ![c] = IF InFlight(c) THEN "answered" ELSE "late"]
    /\ UNCHANGED <<windows, pc, cmd, payload, sent, got, exit, result, prior>>

\* One retrieval against a webview that may reply anything.
RetrieveNext ==
    \/ Dispatch(1, RetrieveRequests)
    \/ Once(1)
    \/ Recv(1)
    \/ RecvTimeout(1)
    \/ ContextReplyEntries(1)

RetrieveSpec == BridgeInit /\ [][RetrieveNext]_vars

\* One retrieval against a webview that serves its buffer.
ServeNext ==
    \/ Dispatch(1, RetrieveRequests)
    \/ Once(1)
    \/ Recv(1)
    \/ RecvTimeout(1)
    \/ ContextServe(1)

ServeSpec == BridgeInit /\ [][ServeNext]_vars

\* ------------------------------------------------------- scripts and their caps

\* The max_depth values a client names.
ClientMaxDepths == {0, 1}

\* state-dump and devtools-bridge requests for the main window.
ScriptRequests ==
    {[command |-> k, payload |-> Dumping(d)] :
        k \in {"state-dump", "devtools-bridge"},
        d \in {None} \cup {Some(n) : n \in ClientMaxDepths}}

\* The webview runs the script it was sent on the page it holds and replies with
\* the JSON text of the script's response object.
ContextRunScript(c) ==
    /\ ctx[c] = "pending"
    /\ \E page \in Pages :
         Emit(c, Reply(c, "result_json", <<>>, None, page)
                 @@ [report |-> RunScript(sent[c][1].code, page)])
    /\ ctx' = [ctx EXCEPT ![c] = IF InFlight(c) THEN "answered" ELSE "late"]
    /\ UNCHANGED <<windows, pc, cmd, payload, sent, got, exit, result, prior>>

\* One state-dump or devtools-bridge call against a webview that runs the script.
ScriptNext ==
    \/ Dispatch(1, ScriptRequests)
    \/ Once(1)
    \/ Recv(1)
    \/ RecvTimeout(1)
    \/ ContextRunScript(1)

ScriptSpec == BridgeInit /\ [][ScriptNext]_vars

\* ------------------------------------------------------- replies with texts

\* Requests whose reply data goes into the envelope: the console logs with their
\* messages, the state dump with the values of the page.
LogRequests ==
    {[command |-> k, payload |-> Typed(None, None, FALSE, FALSE, None)] :
        k \in {"get-console-logs", "state-dump"}}

\* The webview answers the task of call c; `text` is the JSON text the data of the
\* response will have.
ContextReplyText(c) ==
    /\ ctx[c] = "pending"
    /\ \E text \in Texts :
         Emit(c, Reply(c, IF cmd[c] = "state-dump" THEN "result_json" ELSE "fields",
                       <<>>, None, <<>>) @@ [text |-> text])
    /\ ctx' = [ctx EXCEPT ![c] = IF InFlight(c) THEN "answered" ELSE "late"]
    /\ UNCHANGED <<windows, pc, cmd, payload, sent, got, exit, result, prior>>

LogNext ==
    \/ Dispatch(1, LogRequests)
    \/ Once(1)
    \/ Recv(1)
    \/ RecvTimeout(1)
    \/ ContextReplyText(1)

LogSpec == BridgeInit /\ [][LogNext]_vars

\* ------------------------------------------------- the network capture state

\* network-inspector requests for the main window, one per action.
NetworkRequests ==
    {[command |-> "network-inspector",
      payload |-> Typed(None, Some(a), FALSE, FALSE, None)] : a \in NetworkActions}

\* The capture state of the webview once it has handled the events of the calls
\* 1..k, which reach it in the order they were published: capturing after
\* start-network-capture, not capturing after stop-network-capture, as before after
\* any other event, and unknown before the first of the two.
RECURSIVE CaptureState(_)
CaptureState(k) ==
    IF k = 0
    THEN "unknown"
    ELSE LET event == IF sent[k] = <<>> THEN "-" ELSE sent[k][1].event
         IN  CASE event = "start-network-capture" -> "on"
               [] event = "stop-network-capture" -> "off"
               [] OTHER -> CaptureState(k - 1)

\* The calls that have been dispatched.
Dispatched == {k \in Calls : pc[k] # "idle"}

\* The webview answers get-network-requests with its requests (none here) and
\* its capture state.
ContextReplyCapture(c) ==
    /\ ctx[c] = "pending"
    /\ Emit(c, Reply(c, "fields", <<>>, Some(0), <<>>) @@
               [capture_active |-> CaptureState(Cardinality(Dispatched)) = "on"])
    /\ ctx' = [ctx EXCEPT ![c] = IF InFlight(c) THEN "answered" ELSE "late"]
    /\ UNCHANGED <<windows, pc, cmd, payload, sent, got, exit, result, prior>>

NetworkNext ==
    \E c \in Calls :
        \/ Dispatch(c, NetworkRequests)
        \/ Once(c)
        \/ Recv(c)
        \/ RecvTimeout(c)
        \/ ContextReplyCapture(c)

NetworkSpec == BridgeInit /\ [][NetworkNext]_vars

\* ------------------------------------------------- the resources of the page

\* The longest duration of a resource, and the most resources of a page.
MaxDurationMs == 3

MaxResources == 2

ResourceTypes == {"script", "img"}

\* The resource entries of a page: performance.getEntriesByType('resource').
ResourceLists ==
    UNION {[1..n -> [type : ResourceTypes, duration : 1..MaxDurationMs]] :
              n \in 0..MaxResources}

\* The bound a client names in a filter.
ClientDurationMs == 2

\* get-performance-metrics requests for the main window, with and without a filter.
PerformanceRequests ==
    {[command |-> "get-performance-metrics", payload |-> Measuring(f)] :
        f \in {None} \cup
              {Some(ResourceFilter(t, lo, hi)) :
                  t \in {None, Some({"script"})},
                  lo \in {None, Some(ClientDurationMs)},
                  hi \in {None, Some(ClientDurationMs)}}}

\* The webview runs the metrics script on the resources of its page and replies
\* with the JSON text of the metrics.
ContextRunPerformance(c) ==
    /\ ctx[c] = "pending"
    /\ \E resources \in ResourceLists :
         Emit(c, Reply(c, "result_json", <<>>, None, resources)
                 @@ [report |-> RunPerformance(sent[c][1].code, resources)])
    /\ ctx' = [ctx EXCEPT ![c] = IF InFlight(c) THEN "answered" ELSE "late"]
    /\ UNCHANGED <<windows, pc, cmd, payload, sent, got, exit, result, prior>>

PerformanceNext ==
    \/ Dispatch(1, PerformanceRequests)
    \/ Once(1)
    \/ Recv(1)
    \/ RecvTimeout(1)
    \/ ContextRunPerformance(1)

PerformanceSpec == BridgeInit /\ [][PerformanceNext]_vars

\* ------------------------------------------------- the texts of the client

\* The longest text a client names.
MaxTextLen == 2

Strings == UNION {[1..n -> Chars] : n \in 0..MaxTextLen}

\* state-dump requests with a path and devtools-bridge requests with a
\* component_filter, for the main window.
SelectRequests ==
    {[command |-> "state-dump", payload |-> Selecting(Some(t), None)] : t \in Strings}
    \cup
    {[command |-> "devtools-bridge", payload |-> Selecting(None, Some(t))] :
        t \in Strings}

SelectNext ==
    \/ Dispatch(1, SelectRequests)
    \/ Once(1)
    \/ Recv(1)
    \/ RecvTimeout(1)
    \/ ContextReply(1, LiveReplyShapes)

SelectSpec == BridgeInit /\ [][SelectNext]_vars

\* ------------------------------------------------- dispatches and their threads

\* The thread a dispatch runs on, were every request handed to one thread.
ThreadOfShared(c) == 1

\* The thread a dispatch runs on: commands are dispatched one per inbound client
\* request, each on the thread of its own client connection.
ThreadOf(c) == c

\* A handler keeps its thread from the call of handle_command to its return: the
\* wait is std::sync::mpsc's rx.recv_timeout, which blocks the thread and yields
\* to no other future. A dispatch takes a step when no other dispatch in flight
\* occupies its thread.
Scheduled(c) == \A d \in Calls \ {c} : InFlight(d) => ThreadOf(d) # ThreadOf(c)

\* The steps of dispatch c on its thread.
Run(c) ==
    /\ Scheduled(c)
    /\ \/ Dispatch(c, LiveRequests)
       \/ Once(c)
       \/ Recv(c)
       \/ RecvTimeout(c)

\* The delivery of the reply event of call c, on the event loop's thread.
Deliver(c) == ContextReply(c, LiveReplyShapes)

ConcurrentNext ==
    \E c \in Calls :
        \/ Run(c)
        \/ Deliver(c)

ConcurrentSpec == BridgeInit /\ [][ConcurrentNext]_vars

\* Call c is suspended in its wait: nothing has arrived on its channel.
Suspended(c) == pc[c] = "waiting" /\ chan[c] = <<>>

\* Client c is the next to send a request.
NextClient(c) == pc[c] = "idle" /\ \A k \in Calls : k < c => pc[k] # "idle"

\* ----------------------------------------------------------------- claims

Returned(c) == result[c][1]

HasReturned(c) == pc[c] = "done"

\* C1: whenever handle_command returns an envelope, success=false implies that data
\* is absent and success=true implies that error is absent.
C1_EnvelopeExclusive ==
    \A c \in Calls :
        (HasReturned(c) /\ Returned(c).tag = "Ok") =>
            /\ ~Returned(c).response.success => Returned(c).response.data = None
            /\ Returned(c).response.success => Returned(c).response.error = None

\* A bridge reply was shaped into a success=true envelope and, in another run, a
\* remote error into a success=false one (here: the former, from a raw result).
C1_Witness ==
    \E c \in Calls :
        /\ HasReturned(c) /\ exit[c] = "reply" /\ got[c][1].shape = "result_text"
        /\ cmd[c] \in ScriptStyle
        /\ Returned(c).tag = "Ok" /\ Returned(c).response.success

\* C2 (as claimed): handle_command never returns a propagated Error; every handler
\* failure comes back as an envelope.
C2_DispatchTotal ==
    \A c \in Calls : HasReturned(c) => Returned(c).tag = "Ok"

\* C3: a command name outside the routed set yields success=false, no data and the
\* error "Unknown command: <name>" with the literal name, publishes nothing and
\* registers no subscription, whatever the payload and the windows.
C3_UnknownCommand ==
    \A c \in Calls :
        (HasReturned(c) /\ cmd[c] \notin Routed) =>
            /\ Returned(c) = Ok(SocketResponse(FALSE, None,
                                               Some(<<"Unknown command: ", cmd[c]>>)))
            /\ \E i \in DOMAIN Returned(c).response.error[1] :
                    Returned(c).response.error[1][i] = cmd[c]
            /\ sent[c] = <<>>
            /\ ctx[c] = "none"
            /\ \A l \in listeners : l.tx # c

\* An unknown name was dispatched with a well-typed payload while windows exist.
C3_Witness ==
    \E c \in Calls :
        /\ HasReturned(c) /\ cmd[c] \in UnknownNames
        /\ payload[c].typed /\ payload[c].window_label = Some("aux")
        /\ windows = {"main", "aux"}

\* C4 (as claimed): the reply subscription is registered before the task is
\* published, so a reply the context emits while the call is still running is
\* received by that call: it is in the call's channel or was taken from it.
C4_ReplyReceived ==
    \A c \in Calls :
        ctx[c] = "answered" =>
            \/ chan[c] # <<>> /\ Head(chan[c]).task = c
            \/ got[c] # None /\ got[c][1].task = c

\* C5 (as claimed): when no call is in flight on a reply topic, no subscription is
\* registered on that topic.
C5_NoStaleSubscription ==
    \A l \in listeners : \E c \in Calls : InFlight(c) /\ TopicOf(c) = l.event

\* Call a timed out before call b began, on b's topic, and its task was never
\* answered.
TimedOutBefore(a, b) ==
    /\ a \in prior[b]
    /\ TopicOf(a) = TopicOf(b)
    /\ ctx[a] = "pending"

\* C6 (as claimed): if call A timed out with no responder and call B then runs on
\* the same topic with a responder that replies before B's deadline, B completes
\* with that reply.
C6_SecondCallGetsReply ==
    \A b \in Calls :
        (/\ HasReturned(b)
         /\ ctx[b] = "answered"
         /\ \E a \in Calls : TimedOutBefore(a, b)) =>
            /\ exit[b] = "reply"
            /\ got[b][1].task = b

\* C7 (as claimed): the reply to the task of a call that timed out earlier is never
\* returned as the result of a later call.
C7_NoLateReplyReturned ==
    \A b \in Calls : got[b] # None => got[b][1].task \notin prior[b]

\* C8 (as claimed): each reply the context publishes is consumed by at most one call.
C8_SingleConsumer ==
    \A a, b \in Calls :
        (a # b /\ got[a] # None /\ got[b] # None) => got[a][1].task # got[b][1].task

\* C9: every bridge call eventually returns, with the reply or with the timeout
\* outcome, whatever the context and the other calls do.
C9_CallReturns ==
    \A c \in Calls :
        InFlight(c) ~> (HasReturned(c) /\ exit[c] \in {"reply", "timeout"})

\* A call returned by timeout although its task was never answered, while another
\* call was still waiting.
C9_Witness ==
    \E c, d \in Calls :
        /\ TimedOut(c) /\ ctx[c] = "pending"
        /\ c # d /\ pc[d] = "waiting"

\* C10 (as claimed): a bridge call that the context never answers fails with an
\* Error of kind timeout carrying the operation and the effective timeout.
C10_TimeoutError ==
    \A c \in Calls :
        TimedOut(c) =>
            /\ Returned(c).tag = "Err"
            /\ Returned(c).error.kind = "TimeoutError"
            /\ Returned(c).error.duration_ms = RecvTimeoutMs(cmd[c], payload[c])

\* The handlers in the sources that read a window_label from their request.
WindowHandlers == Routed \ (Absent \cup {"health-check"})

\* C11 (as claimed): a handler given a window_label that the registry does not hold
\* returns the window-not-found Error with that label and publishes nothing,
\* whatever the action and the rest of a decodable payload.
C11_WindowNotFound ==
    \A c \in Calls :
        (/\ HasReturned(c)
         /\ cmd[c] \in WindowHandlers
         /\ Decodes(cmd[c], payload[c])
         /\ IsSome(payload[c].window_label)
         /\ payload[c].window_label[1] \notin windows) =>
            /\ Returned(c) = Err(window_not_found(payload[c].window_label[1]))
            /\ sent[c] = <<>>

\* The call returned from a reply that carries a remote error message.
RemoteErrorReturned(c) ==
    /\ HasReturned(c)
    /\ exit[c] = "reply"
    /\ got[c][1].shape = "error_string"

\* C12 (as claimed): a reply that carries a remote error message yields the
\* envelope {success: false, no data, error: exactly the remote message}.
C12_RemoteErrorVerbatim ==
    \A c \in Calls :
        RemoteErrorReturned(c) => Returned(c) = Failure(<<RemoteErrorText>>)

\* C12 (amended): a reply that carries a remote error message never yields a
\* propagated Error; it yields an envelope with success=false, no data and an error
\* text that ends with the remote message: the message itself from the three script
\* handlers, the message behind the Display prefix of the handler's error enum from
\* the four retrieval handlers.
C12_RemoteErrorFolded ==
    \A c \in Calls :
        RemoteErrorReturned(c) =>
            /\ Returned(c).tag = "Ok"
            /\ ~Returned(c).response.success
            /\ Returned(c).response.data = None
            /\ IsSome(Returned(c).response.error)
            /\ LET text == Returned(c).response.error[1]
               IN  /\ text[Len(text)] = RemoteErrorText
                   /\ cmd[c] \in ScriptStyle => Len(text) = 1
                   /\ cmd[c] \in RetrieveStyle =>
                        /\ Len(text) = 2
                        /\ text[1] \in {"Console operation error: ",
                                        "Error tracking operation error: ",
                                        "Network operation error: ",
                                        "JavaScript error: "}

\* A retrieval handler and, in another run, a script handler returned from a
\* reply with a remote error message (here: the storage inspector).
C12_Witness ==
    \E c \in Calls : RemoteErrorReturned(c) /\ cmd[c] = "storage-inspector"

\* C13 (as claimed): when publishing the task fails, a bridge-backed handler fails
\* with a propagated communication Error and leaves no subscription behind.
C13_PublishFailure ==
    \A c \in Calls :
        (HasReturned(c) /\ exit[c] = "publish" /\ cmd[c] \in RetrieveStyle \cup ScriptStyle) =>
            /\ Returned(c).tag = "Err"
            /\ Returned(c).error.kind = "CommunicationError"
            /\ \A l \in listeners : l.tx # c

\* C14: a payload that does not decode into the request struct of the command
\* makes the handler fail with a serialization Error whose message includes the
\* decode error text, before the window is resolved: nothing is published and no
\* subscription is registered, whether or not the target window exists.
C14_DecodeFailure ==
    \A c \in Calls :
        (HasReturned(c) /\ cmd[c] \in WindowHandlers /\ ~Decodes(cmd[c], payload[c])) =>
            /\ Returned(c).tag = "Err"
            /\ Returned(c).error.kind = "SerializationError"
            /\ \E i \in DOMAIN Returned(c).error.message :
                    Returned(c).error.message[i] = DecodeErrorText
            /\ exit[c] = "decode"
            /\ sent[c] = <<>>
            /\ ctx[c] = "none"
            /\ \A l \in listeners : l.tx # c

\* An undecodable payload was dispatched to a handler whose default window is absent.
C14_Witness ==
    \E c \in Calls :
        /\ HasReturned(c) /\ cmd[c] = "state-dump" /\ ~payload[c].typed
        /\ windows = {}

\* C15: health-check returns success=true with a non-empty capability list and
\* connection_status.socket_server_running = true for every payload and every set
\* of windows, and publishes nothing.
C15_HealthCheck ==
    \A c \in Calls :
        (HasReturned(c) /\ cmd[c] = "health-check") =>
            /\ Returned(c).tag = "Ok"
            /\ Returned(c).response.success
            /\ Returned(c).response.error = None
            /\ Returned(c).response.data[1].capabilities # {}
            /\ Returned(c).response.data[1].connection_status.socket_server_running
            /\ sent[c] = <<>>
            /\ ctx[c] = "none"

\* health-check was dispatched with an undecodable payload while no window exists.
C15_Witness ==
    \E c \in Calls :
        /\ HasReturned(c) /\ cmd[c] = "health-check"
        /\ ~payload[c].typed /\ windows = {}

\* The retrieval call returned from a reply that carries its collection.
Retrieved(c) ==
    /\ HasReturned(c)
    /\ exit[c] = "reply"
    /\ cmd[c] \in {"get-console-logs", "get-exceptions", "network-inspector"}
    /\ got[c][1].shape = "fields"

\* C16 (as claimed): a retrieval with limit L against a webview holding N matching
\* entries reports returned_count = min(L, N) and total_count = N, so returned_count
\* never exceeds L, whatever the webview replies.
C16_LimitHonoured ==
    \A c \in Calls :
        Retrieved(c) =>
            LET L == sent[c][1].filter.limit
                N == Len(Matching(got[c][1].held, sent[c][1].filter))
                data == Returned(c).response.data[1]
            IN  /\ data.returned_count = Min(L, N)
                /\ data.total_count = N
                /\ data.returned_count <= L

\* The number of buffered entries of the level a console request asks for.
OfLevel(c) ==
    Len(SelectSeq(got[c][1].held, LAMBDA e : Some(e) = payload[c].level))

\* C17: get-console-logs with a level, against a webview that holds k entries of
\* that level and any entries of other levels, with a limit of at least k, returns
\* success=true with only entries of that level, returned_count = k and
\* total_count = k.
C17_LevelFilter ==
    \A c \in Calls :
        (/\ Retrieved(c)
         /\ cmd[c] = "get-console-logs"
         /\ IsSome(payload[c].level)
         /\ sent[c][1].filter.limit >= OfLevel(c)) =>
            LET data == Returned(c).response.data[1]
            IN  /\ Returned(c).response.success
                /\ data.returned_count = OfLevel(c)
                /\ data.total_count = OfLevel(c)
                /\ \A i \in DOMAIN data.entries : Some(data.entries[i]) = payload[c].level

\* A console retrieval for "error" with limit 2 returned against a buffer of two
\* "error" entries and one "info" entry.
C17_Witness ==
    \E c \in Calls :
        /\ Retrieved(c) /\ cmd[c] = "get-console-logs"
        /\ payload[c].level = Some("error") /\ payload[c].limit = Some(2)
        /\ OfLevel(c) = 2 /\ Len(got[c][1].held) = 3

\* The call returned from the reply of a script that ran on a page.
ScriptReturned(c) ==
    /\ HasReturned(c)
    /\ exit[c] = "reply"
    /\ "report" \in DOMAIN got[c][1]

\* C18 (as claimed): the state-dump and devtools-bridge walks end on every page,
\* cyclic ones included, without overflowing the stack, and on a cyclic page the
\* reply has max_depth_reached set or holds a depth or circular-reference marker.
C18_TraversalTerminates ==
    \A c \in Calls :
        ScriptReturned(c) =>
            LET report == got[c][1].report
            IN  /\ ~report.overflow
                /\ Cyclic(got[c][1].held, 1) =>
                        \/ report.metadata.max_depth_reached
                        \/ "[Max depth reached]" \in report.markers
                        \/ "[Circular Reference]" \in report.markers

\* C19 (as claimed): when a walk is cut off by a cap, the reply's metadata says so
\* (max_depth_reached for a depth cut-off, truncated for a size or entry cut-off) and
\* the call returns a success envelope, not an error.
C19_CapsFlagged ==
    \A c \in Calls :
        ScriptReturned(c) =>
            LET report == got[c][1].report
            IN  /\ report.depth_cut => report.metadata.max_depth_reached
                /\ report.size_cut => report.metadata.truncated
                /\ report.entry_cut => report.metadata.truncated
                /\ Returned(c).tag = "Ok" /\ Returned(c).response.success

WithMain(p) == [p EXCEPT !.window_label = Some("main")]

\* C21: a dispatch whose payload leaves window_label out publishes to the window
\* "main" only, reports a missing window as "main", and at every return point
\* yields what the same payload with window_label = "main" yields.
C21_AbsentLabelIsMain ==
    \A c \in Calls :
        (/\ pc[c] # "idle"
         /\ cmd[c] \in WindowHandlers
         /\ payload[c].typed
         /\ payload[c].window_label = None) =>
            /\ \A i \in 1..Len(sent[c]) : sent[c][i].window = "main"
            /\ \A io \in IoOutcomes(cmd[c]) :
                  handle_command(cmd[c], payload[c], windows, io)
                      = handle_command(cmd[c], WithMain(payload[c]), windows, io)
            /\ (HasReturned(c) /\ exit[c] = "resolve") =>
                  /\ "main" \notin windows
                  /\ Returned(c) = Err(window_not_found("main"))
            /\ (HasReturned(c) /\ exit[c] \in {"reply", "timeout"}) =>
                  Returned(c) = handle_command_end(cmd[c], WithMain(payload[c]), got[c])

\* A call without a window_label returned from the reply to the task it published
\* to "main", in an application that has a second window.
C21_Witness ==
    \E c \in Calls :
        /\ HasReturned(c) /\ exit[c] = "reply"
        /\ cmd[c] \in WindowHandlers
        /\ payload[c].typed /\ payload[c].window_label = None
        /\ windows = {"main", "aux"}
        /\ sent[c] # <<>> /\ sent[c][1].window = "main"

\* C22: within one dispatch the task is published at most once: a dispatch never
\* holds more than one published event, and no step after the dispatch began (the
\* listener registration, a reply of any shape, the timeout, a publish failure)
\* publishes again.
C22_NoRetry ==
    [][\A c \in Calls :
          /\ Len(sent'[c]) <= 1
          /\ pc[c] # "idle" => sent'[c] = sent[c]]_vars

\* A call failed by timeout or on a reply that does not parse, with its task
\* published once.
C22_Witness ==
    \E c \in Calls :
        /\ HasReturned(c) /\ Len(sent[c]) = 1
        /\ \/ exit[c] = "timeout"
           \/ exit[c] = "reply" /\ got[c][1].shape = "not_json"
        /\ Returned(c).tag = "Err" \/ ~Returned(c).response.success

\* C23 (as claimed): the duration a bridge call waits for its reply is the payload's
\* timeout_ms where the command reads one and the client supplies it, otherwise
\* 5000 ms for state-dump, devtools-bridge and get-performance-metrics, 15000 ms
\* for network request retrieval and 10000 ms for console-log, exception and
\* storage retrieval; a script call that timed out reports that duration.
C23_EffectiveDeadline ==
    \A c \in Calls :
        LET claimed == IF cmd[c] \in ScriptStyle
                       THEN unwrap_or(payload[c].timeout_ms, 5000)
                       ELSE IF cmd[c] = "network-inspector" THEN 15000 ELSE 10000
        IN  /\ InFlight(c) => RecvTimeoutMs(cmd[c], payload[c]) = claimed
            /\ (TimedOut(c) /\ cmd[c] \in ScriptStyle) =>
                  Returned(c).error.duration_ms = claimed

\* C24 (as claimed): calls of two different command kinds never listen on the same
\* reply topic, and the reply a call takes from its channel was produced by the
\* task of a call of its own command kind.
C24_TopicPerCommand ==
    \A a, b \in Calls :
        /\ (pc[a] = "waiting" /\ pc[b] = "waiting" /\ cmd[a] # cmd[b]) =>
              TopicOf(a) # TopicOf(b)
        /\ (got[a] # None /\ got[a][1].task = b) => cmd[b] = cmd[a]

\* C25 (as claimed): a call that returned from a malformed reply (for the console,
\* exception and network retrievals an object without the collection field; for a
\* script command a result string that is not JSON) did not return success = true.
C25_MalformedRejected ==
    \A c \in Calls :
        (HasReturned(c) /\ exit[c] = "reply") =>
            LET shape == got[c][1].shape
                malformed ==
                    \/ /\ cmd[c] \in ScriptStyle
                       /\ shape = "result_text"
                    \/ /\ cmd[c] \in {"get-console-logs", "get-exceptions", "network-inspector"}
                       /\ shape \in {"error_object", "result_json", "result_text",
                                     "result_number"}
            IN  malformed => (Returned(c).tag = "Err" \/ ~Returned(c).response.success)

\* The dispatch is one of a notify-only command: one of the four notify-only
\* handlers, or a network-inspector action other than get_requests.
IsNotify(c) ==
    \/ cmd[c] \in NotifyOnly
    \/ /\ cmd[c] = "network-inspector"
       /\ payload[c].typed
       /\ payload[c].action \in {Some("clear_requests"), Some("start_capture"),
                                 Some("stop_capture")}

\* C26 (as claimed): a notify-only dispatch returns within handle_command without
\* ever waiting: it registers no listener and leaves no task pending, and when it
\* succeeds it has published exactly one event, to the window it names and to no
\* other (otherwise none).
C26_NotifyOnly ==
    \A c \in Calls :
        (pc[c] # "idle" /\ IsNotify(c)) =>
            /\ HasReturned(c)
            /\ \A l \in listeners : l.tx # c
            /\ ctx[c] = "none" /\ got[c] = None
            /\ IF Returned(c).tag = "Ok" /\ Returned(c).response.success
               THEN /\ Len(sent[c]) = 1
                    /\ EmitTarget(sent[c][1]) = WindowLabel(payload[c])
               ELSE sent[c] = <<>>

\* The request of call c fails validation: a storage-inspector request without the
\* field its action needs, or a storage or network request with an unknown action.
FailsValidation(c) ==
    /\ Decodes(cmd[c], payload[c])
    /\ \/ /\ cmd[c] = "storage-inspector"
          /\ \/ /\ payload[c].action \in {Some("get_storage"), Some("clear_storage")}
                /\ ~payload[c].storage_type
             \/ payload[c].action = Some("query_indexeddb") /\ ~payload[c].db_store
             \/ payload[c].action[1] \notin StorageActions
       \/ /\ cmd[c] = "network-inspector"
          /\ payload[c].action[1] \notin NetworkActions
          /\ WindowLabel(payload[c]) \in windows

\* C27 (as claimed): a dispatch whose request fails validation returns an Error of
\* kind invalid-parameter from its handler, and has published nothing.
C27_ValidationError ==
    \A c \in Calls :
        (HasReturned(c) /\ FailsValidation(c)) =>
            /\ Returned(c).tag = "Err"
            /\ Returned(c).error.kind = "InvalidParameter"
            /\ sent[c] = <<>>

\* C28 (as claimed): a hot-reload dispatch that decoded its payload and resolved
\* its window, and did not reload it, returned an Error of kind
\* window-operation-failed carrying the operation and the reason.
C28_HotReloadFailure ==
    \A c \in Calls :
        (/\ HasReturned(c) /\ cmd[c] = "hot-reload"
         /\ payload[c].typed /\ WindowLabel(payload[c]) \in windows
         /\ ~(Returned(c).tag = "Ok" /\ Returned(c).response.success)) =>
            /\ Returned(c).tag = "Err"
            /\ Returned(c).error.kind = "WindowOperationFailed"
            /\ Returned(c).error.operation # ""
            /\ Returned(c).error.reason # <<>>

\* C29 (as claimed): in every successful retrieval envelope returned_count is the
\* length of the returned list and total_count is at least returned_count,
\* whatever array and total_count the reply carries.
C29_CountsConsistent ==
    \A c \in Calls :
        (Retrieved(c) /\ Returned(c).tag = "Ok" /\ Returned(c).response.success) =>
            LET data == Returned(c).response.data[1]
            IN  /\ data.returned_count = Len(data.entries)
                /\ data.total_count >= data.returned_count

\* C30 (as claimed): a dispatch that took a reply from its channel returns, and
\* returns the handler's result unchanged, whatever the length of the data's text
\* and wherever its multi-byte characters lie.
C30_LoggedUnchanged ==
    \A c \in Calls :
        got[c] # None =>
            /\ HasReturned(c)
            /\ Returned(c) = handle_command_end(cmd[c], payload[c], got[c])

\* C31: a storage-inspector dispatch whose request fails validation returns a
\* success = false envelope from the validation, has published nothing, registered
\* no listener and left no task pending, and its outcome is the one it has for
\* every set of windows.
C31_ValidationBeforeWindow ==
    \A c \in Calls :
        (pc[c] # "idle" /\ cmd[c] = "storage-inspector" /\ FailsValidation(c)) =>
            /\ HasReturned(c) /\ exit[c] = "validate"
            /\ Returned(c).tag = "Ok"
            /\ ~Returned(c).response.success /\ Returned(c).response.data = None
            /\ sent[c] = <<>> /\ ctx[c] = "none"
            /\ \A l \in listeners : l.tx # c
            /\ \A ws \in SUBSET Labels, io \in IoOutcomes(cmd[c]) :
                  handle_command(cmd[c], payload[c], ws, io).result = Returned(c)

\* A storage-inspector request without storage_type, for a window that does not
\* exist, has returned.
C31_Witness ==
    \E c \in Calls :
        /\ HasReturned(c) /\ cmd[c] = "storage-inspector" /\ FailsValidation(c)
        /\ payload[c].action = Some("get_storage")
        /\ payload[c].window_label = Some("aux") /\ "aux" \notin windows

\* C32 (as claimed): the capture_active flag of a successful network-inspector
\* response is the capture state of the webview after the action: for start_capture,
\* stop_capture and clear_requests the state after the events published up to and
\* including the call's own (where a start or a stop has set it), for get_requests
\* the state the webview replied with.
C32_CaptureActive ==
    \A c \in Calls :
        (/\ HasReturned(c) /\ cmd[c] = "network-inspector"
         /\ Returned(c).tag = "Ok" /\ Returned(c).response.success) =>
            LET flag == Returned(c).response.data[1].capture_active
            IN  IF exit[c] = "reply"
                THEN flag = got[c][1].capture_active
                ELSE CaptureState(c) # "unknown" => flag = (CaptureState(c) = "on")

\* C33 (as claimed): when the request's resource_filter names a max_duration_ms,
\* alone or with other fields, no resource longer than it is in the resource_timing
\* the call's task produced.
C33_MaxDurationApplied ==
    \A c \in Calls :
        (/\ HasReturned(c) /\ exit[c] = "reply" /\ cmd[c] = "get-performance-metrics"
         /\ IsSome(payload[c].resource_filter)
         /\ IsSome(payload[c].resource_filter[1].max_duration_ms)) =>
            LET timing == got[c][1].report.resource_timing
            IN  \A i \in 1..Len(timing) :
                    timing[i].duration <= payload[c].resource_filter[1].max_duration_ms[1]

\* C34 (as claimed): the devtools-bridge walk counts at most as many components as
\* its cap (500 in the script), and metadata.truncated is true exactly when the cap
\* kept at least one component out.
C34_ComponentCap ==
    \A c \in Calls :
        (ScriptReturned(c) /\ cmd[c] = "devtools-bridge") =>
            LET report == got[c][1].report
            IN  /\ report.metadata.total_components <= ComponentCap
                /\ report.metadata.truncated <=> report.left_out

\* C35 (as claimed): in every script a state-dump or devtools-bridge dispatch has
\* published, the client's text is one string literal: the literal the generator
\* opened is closed by the quote the generator wrote, and by nothing in the text.
C35_SingleLiteral ==
    \A c \in Calls :
        (/\ sent[c] # <<>>
         /\ cmd[c] \in {"state-dump", "devtools-bridge"}
         /\ IsSome(sent[c][1].code.literal)) =>
            ScanLiteral(sent[c][1].code.literal[1], 1) = "closed"

\* The name under which the capability list would carry a routed command: the
\* identifier of its match arm in lower case.
CapabilityName(command) ==
    CASE command = "ping" -> "ping"
      [] command = "take-screenshot" -> "take_screenshot"
      [] command = "get-dom" -> "get_dom"
      [] command = "manage-local-storage" -> "manage_local_storage"
      [] command = "execute-js" -> "execute_js"
      [] command = "manage-window" -> "manage_window"
      [] command = "simulate-text-input" -> "simulate_text_input"
      [] command = "simulate-mouse-movement" -> "simulate_mouse_movement"
      [] command = "get-element-position" -> "get_element_position"
      [] command = "send-text-to-element" -> "send_text_to_element"
      [] command = "hot-reload" -> "hot_reload"
      [] command = "get-console-logs" -> "get_console_logs"
      [] command = "inject-console-capture" -> "inject_console_capture"
      [] command = "network-inspector" -> "network_inspector"
      [] command = "inject-network-capture" -> "inject_network_capture"
      [] command = "state-dump" -> "state_dump"
      [] command = "devtools-bridge" -> "devtools_bridge"
      [] command = "get-exceptions" -> "get_exceptions"
      [] command = "inject-error-tracker" -> "inject_error_tracker"
      [] command = "clear-exceptions" -> "clear_exceptions"
      [] command = "get-performance-metrics" -> "get_performance_metrics"
      [] command = "storage-inspector" -> "storage_inspector"
      [] command = "health-check" -> "health_check"

\* C36: the capability list health-check returns names exactly the commands the
\* dispatcher routes to a handler: every routed command is listed and every
\* listed capability is a routed command.
C36_CapabilitiesMatchRoutes ==
    \A c \in Calls :
        (HasReturned(c) /\ cmd[c] = "health-check" /\ Returned(c).tag = "Ok"
         /\ Returned(c).response.success) =>
            Returned(c).response.data[1].capabilities
                = {CapabilityName(command) : command \in Routed}

====
